---- MODULE Spec2Model ----
(***************************************************************************)
(* A model of youtube_trending.py: one run of main(), which builds the     *)
(* API client, issues one "most popular" list request, filters the items   *)
(* by publication time and prints the first `count` of them.               *)
(*                                                                         *)
(* Time is counted in whole hours.  Instant 0 is datetime.min, the oldest  *)
(* instant a datetime can hold.  A publishedAt value is a record           *)
(*   [kind, t, sfx]                                                        *)
(* kind "missing": the key is absent (dict.get gives None)                 *)
(* kind "empty"  : the empty string                                        *)
(* kind "number" : a truthy value that is not a string                     *)
(* kind "text"   : a string whose date part is not ISO-8601, then sfx      *)
(* kind "iso"    : a string with the ISO date-time of instant t, then sfx  *)
(* sfx is the tail of the string: "", "Z", "+00:00" or "+01:00".           *)
(***************************************************************************)
EXTENDS Integers, Sequences, FiniteSets, TLC

VARIABLES
    API_KEY,          \* the module-level API_KEY = os.getenv("YOUTUBE_API_KEY")
    args,             \* the parsed command line: count, hours, fetch
    pc,               \* where main is: the next stage to run, or "done"
    youtube_service,  \* main's client handle: "None" until built
    response,         \* how request.execute() ended: "ok" or the error raised
    videos,           \* main's videos, the result of fetch_popular_videos
    now,              \* the instant filter_videos_by_time read from the clock
    filtered_videos,  \* main's filtered_videos
    out,              \* the lines printed so far
    calls,            \* the functions main has called, in order
    requests,         \* the list requests issued to the remote API
    exc               \* the exception that left main, or "none"

vars == <<API_KEY, args, pc, youtube_service, response, videos, now,
          filtered_videos, out, calls, requests, exc>>

\* Longest item list the remote API answers with.
MaxLen == 2
\* Latest publication instant (in hours after datetime.min); also the clock.
MaxInstant == 2

Min(a, b) == IF a <= b THEN a ELSE b
Max(a, b) == IF a >= b THEN a ELSE b

----------------------------------------------------------------------------
\* Input domains.

\* os.getenv("YOUTUBE_API_KEY"): None, "" or a key.
ApiKeys == {"None", "", "key"}

Suffixes == {"", "Z", "+00:00", "+01:00"}

Pub(kind, t, sfx) == [kind |-> kind, t |-> t, sfx |-> sfx]

PublishedAtValues ==
    {Pub("missing", 0, ""), Pub("empty", 0, ""), Pub("number", 0, "")}
    \cup {Pub("text", 0, s) : s \in {"", "Z"}}
    \cup {Pub("iso", t, s) : t \in 1..MaxInstant, s \in Suffixes}

\* Items of a response: item "a" carries a title, item "b" carries none.
VideoItems ==
    {[id |-> "a", title |-> "A", publishedAt |-> p] : p \in PublishedAtValues}
    \cup {[id |-> "b", title |-> "absent", publishedAt |-> p] : p \in PublishedAtValues}

SeqsUpTo(S, n) == UNION {[1..k -> S] : k \in 0..n}

\* argparse type=int accepts every integer, negative ones included.
Counts == -1..(MaxLen + 1)
Hours == -1..(MaxInstant + 1)
FetchCaps == 1..MaxLen

\* datetime.datetime.now(datetime.timezone.utc)
Clock == {MaxInstant}

----------------------------------------------------------------------------
\* Printed lines.  Every line has the same fields; unused ones are blank.

Line(kind, id, title, value, n) ==
    [kind |-> kind, id |-> id, title |-> title, value |-> value, n |-> n]

Blank == Pub("missing", 0, "")

ConfigErrorLine == Line("config_error", "", "", Blank, 0)
NoServiceLine == Line("no_service", "", "", Blank, 0)
ApiErrorLine == Line("api_error", "", "", Blank, 0)
NoPopularLine == Line("no_popular", "", "", Blank, 0)
NoRecentLine == Line("no_recent", "", "", Blank, 0)
NoVideosLine == Line("no_videos", "", "", Blank, 0)
ParseErrorLine(value, id) == Line("parse_error", id, "", value, 0)
HeaderLine(n) == Line("header", "", "", Blank, n)
EntryLine(rank, title, id) == Line("entry", id, title, Blank, rank)

----------------------------------------------------------------------------
\* get_youtube_service

\* The check written as `API_KEY is None`: an empty key passes it.
KeyMissingNoneOnly(key) == key = "None"

\* `not API_KEY`
KeyMissing(key) == key \in {"None", ""}

----------------------------------------------------------------------------
\* filter_videos_by_time

\* `if published_at_str:`
Truthy(s) == s.kind \notin {"missing", "empty"}

\* published_at_str.endswith('Z'); only a string has the method.
EndsWithZ(s) == s.sfx = "Z"

\* published_at_str[:-1] + '+00:00'
ReplaceZ(s) == [s EXCEPT !.sfx = "+00:00"]

\* datetime.datetime.fromisoformat on a string: ValueError (ok = FALSE), a
\* naive datetime (no offset in the string) or an aware one, whose UTC
\* instant is the wall time minus the offset.
fromisoformat(s) ==
    IF s.kind # "iso" THEN [ok |-> FALSE, aware |-> FALSE, utc |-> 0]
    ELSE IF s.sfx = "" THEN [ok |-> TRUE, aware |-> FALSE, utc |-> s.t]
    ELSE IF s.sfx = "+01:00" THEN [ok |-> TRUE, aware |-> TRUE, utc |-> s.t - 1]
    ELSE [ok |-> TRUE, aware |-> TRUE, utc |-> s.t]

\* now - datetime.timedelta(hours=hours): OverflowError when the result is
\* older than datetime.min.
ThresholdOverflows(clock, hours) == clock - hours < 0

\* The item inserted at the front: filtered_videos.insert(0, video).
KeepVideoFirst(acc, video) == <<video>> \o acc

\* filtered_videos.append(video)
KeepVideo(acc, video) == Append(acc, video)

FilterOutcome(status, result, printed) ==
    [status |-> status, result |-> result, printed |-> printed]

\* The for loop from item i on; acc is filtered_videos, printed the
\* diagnostics so far.  It ends by returning or by an uncaught exception.
RECURSIVE FilterLoop(_, _, _, _, _)
FilterLoop(vs, i, time_threshold, acc, printed) ==
    IF i > Len(vs) THEN FilterOutcome("returned", acc, printed)
    ELSE LET video == vs[i]
             published_at_str == video.publishedAt
         IN IF ~Truthy(published_at_str)
            THEN FilterLoop(vs, i + 1, time_threshold, acc, printed)
            ELSE IF published_at_str.kind = "number"
            THEN FilterOutcome("AttributeError", <<>>, printed)
            ELSE LET rewritten == IF EndsWithZ(published_at_str)
                                  THEN ReplaceZ(published_at_str)
                                  ELSE published_at_str
                     published_at_dt == fromisoformat(rewritten)
                 IN IF ~published_at_dt.ok
                    THEN FilterLoop(vs, i + 1, time_threshold, acc,
                                    Append(printed, ParseErrorLine(rewritten, video.id)))
                    ELSE IF ~published_at_dt.aware
                    THEN FilterOutcome("TypeError", <<>>, printed)
                    ELSE IF published_at_dt.utc >= time_threshold
                    THEN FilterLoop(vs, i + 1, time_threshold,
                                    KeepVideo(acc, video), printed)
                    ELSE FilterLoop(vs, i + 1, time_threshold, acc, printed)

filter_videos_by_time(vs, hours, clock) ==
    IF ThresholdOverflows(clock, hours)
    THEN FilterOutcome("OverflowError", <<>>, <<>>)
    ELSE FilterLoop(vs, 1, clock - hours, <<>>, <<>>)

----------------------------------------------------------------------------
\* display_videos

\* videos[:n] of Python: a negative n counts from the end.
Slice(vs, n) ==
    IF n >= 0 THEN SubSeq(vs, 1, Min(n, Len(vs)))
    ELSE SubSeq(vs, 1, Max(Len(vs) + n, 0))

\* video.get("snippet", {}).get("title", "No Title")
TitleOf(video) == IF video.title = "absent" THEN "No Title" ELSE video.title

display_videos(vs, count) ==
    IF vs = <<>> THEN <<NoVideosLine>>
    ELSE LET num_to_display == Min(Len(vs), count)
             shown == Slice(vs, num_to_display)
         IN <<HeaderLine(num_to_display)>>
            \o [i \in 1..Len(shown) |-> EntryLine(i, TitleOf(shown[i]), shown[i].id)]

----------------------------------------------------------------------------
\* main

\* The emptiness check left out.
NeverEmpty(vs) == FALSE

\* `if not videos:`
NoVideos(vs) == vs = <<>>

\* `if not filtered_videos:`
NoFiltered(vs) == vs = <<>>

Init ==
    /\ API_KEY \in ApiKeys
    /\ args = [count |-> 0, hours |-> 0, fetch |-> 1]
    /\ pc = "parse_args"
    /\ youtube_service = "None"
    /\ response = "none"
    /\ videos = <<>>
    /\ now = 0
    /\ filtered_videos = <<>>
    /\ out = <<>>
    /\ calls = <<>>
    /\ requests = 0
    /\ exc = "none"

\* parser.parse_args()
ParseArgs ==
    /\ pc = "parse_args"
    /\ \E c \in Counts, h \in Hours, f \in FetchCaps :
           args' = [count |-> c, hours |-> h, fetch |-> f]
    /\ pc' = "get_service"
    /\ UNCHANGED <<API_KEY, youtube_service, response, videos, now,
                   filtered_videos, out, calls, requests, exc>>

\* try: youtube_service = get_youtube_service() ... and the check after it
MainGetService ==
    /\ pc = "get_service"
    /\ calls' = Append(calls, "get_youtube_service")
    /\ IF KeyMissing(API_KEY)
       THEN /\ out' = Append(out, ConfigErrorLine)
            /\ pc' = "done"
            /\ UNCHANGED youtube_service
       ELSE /\ youtube_service' = "Resource"
            /\ IF youtube_service' = "None"
               THEN out' = Append(out, NoServiceLine) /\ pc' = "done"
               ELSE out' = out /\ pc' = "fetch"
    /\ UNCHANGED <<API_KEY, args, response, videos, now, filtered_videos,
                   requests, exc>>

\* videos = fetch_popular_videos(...): the request is built and executed.
FetchCalled ==
    /\ pc = "fetch"
    /\ calls' = Append(calls, "fetch_popular_videos")
    /\ requests' = requests + 1
    /\ UNCHANGED <<API_KEY, args, youtube_service, now, filtered_videos>>

\* request.execute() answers; response.get("items", []) is returned, and
\* main checks it.
MainFetchOk ==
    /\ FetchCalled
    /\ \E items \in SeqsUpTo(VideoItems, args.fetch) :
           /\ response' = "ok"
           /\ videos' = items
           /\ IF NoVideos(items)
              THEN out' = Append(out, NoPopularLine) /\ pc' = "done"
              ELSE out' = out /\ pc' = "filter"
    /\ exc' = exc

\* request.execute() raises googleapiclient.errors.HttpError: the except
\* clause prints it and returns [], and main checks the result.
MainFetchHttpError ==
    /\ FetchCalled
    /\ response' = "HttpError"
    /\ videos' = <<>>
    /\ IF NoVideos(<<>>)
       THEN out' = out \o <<ApiErrorLine, NoPopularLine>> /\ pc' = "done"
       ELSE out' = Append(out, ApiErrorLine) /\ pc' = "filter"
    /\ exc' = exc

\* request.execute() raises an exception that is no HttpError (a socket,
\* DNS or timeout error of the transport): no except clause matches it, in
\* fetch_popular_videos or in main.
MainFetchTransportError ==
    /\ FetchCalled
    /\ response' = "TransportError"
    /\ exc' = "TransportError"
    /\ pc' = "done"
    /\ UNCHANGED <<videos, out>>

\* filtered_videos = filter_videos_by_time(...) and the check after it
MainFilter ==
    /\ pc = "filter"
    /\ calls' = Append(calls, "filter_videos_by_time")
    /\ \E clock \in Clock :
         LET r == filter_videos_by_time(videos, args.hours, clock)
         IN /\ now' = clock
            /\ IF r.status # "returned"
               THEN /\ exc' = r.status
                    /\ out' = out \o r.printed
                    /\ pc' = "done"
                    /\ UNCHANGED filtered_videos
               ELSE /\ filtered_videos' = r.result
                    /\ exc' = exc
                    /\ IF NoFiltered(r.result)
                       THEN /\ out' = out \o r.printed \o <<NoRecentLine>>
                            /\ pc' = "done"
                       ELSE /\ out' = out \o r.printed
                            /\ pc' = "display"
    /\ UNCHANGED <<API_KEY, args, youtube_service, response, videos, requests>>

\* display_videos(filtered_videos, count=args.count, ...)
MainDisplay ==
    /\ pc = "display"
    /\ calls' = Append(calls, "display_videos")
    /\ out' = out \o display_videos(filtered_videos, args.count)
    /\ pc' = "done"
    /\ UNCHANGED <<API_KEY, args, youtube_service, response, videos, now,
                   filtered_videos, requests, exc>>

Next ==
    \/ ParseArgs
    \/ MainGetService
    \/ MainFetchOk
    \/ MainFetchHttpError
    \/ MainFetchTransportError
    \/ MainFilter
    \/ MainDisplay

Spec == Init /\ [][Next]_vars

----------------------------------------------------------------------------
\* Vocabulary of the properties.

Range(s) == {s[i] : i \in 1..Len(s)}

Called(stage) == stage \in Range(calls)

LinesOf(kind) == SelectSeq(out, LAMBDA l : l.kind = kind)

\* fetch_popular_videos, resp. filter_videos_by_time, returned to main.
FetchReturned == response \in {"ok", "HttpError"}
FilterReturned == Called("filter_videos_by_time") /\ exc = "none"

\* a is b with some items left out, the others in b's order.
RECURSIVE IsSubsequence(_, _)
IsSubsequence(a, b) ==
    IF a = <<>> THEN TRUE
    ELSE IF b = <<>> THEN FALSE
    ELSE IF Head(a) = Head(b) THEN IsSubsequence(Tail(a), Tail(b))
    ELSE IsSubsequence(a, Tail(b))

\* The instant a publishedAt string denotes when it carries a zone: its
\* wall time minus its offset, "Z" meaning offset zero.
HasZone(p) == p.kind = "iso" /\ p.sfx # ""
InstantOf(p) == IF p.sfx = "+01:00" THEN p.t - 1 ELSE p.t

\* The ways C2 lists for a publishedAt to be malformed.
Malformed(p) == p.kind \in {"missing", "empty", "number", "text"}
                \/ (p.kind = "iso" /\ p.sfx = "")

\* s without its i-th item.
Without(s, i) == SubSeq(s, 1, i - 1) \o SubSeq(s, i + 1, Len(s))

\* The entry display_videos prints for a video at a rank.
EntryFor(rank, video) == EntryLine(rank, TitleOf(video), video.id)

----------------------------------------------------------------------------
\* C1: fetch_popular_videos never raises to its caller: whenever the list
\* request fails, by an HttpError or by a transport-level error, it reports
\* the error and returns an empty list.
C1_FetchNeverRaises ==
    (Called("fetch_popular_videos") /\ response \in {"HttpError", "TransportError"})
        => /\ exc = "none"
           /\ videos = <<>>
           /\ Len(LinesOf("api_error")) = 1

\* C2: with exactly one malformed publishedAt among N items, the others
\* well-formed and inside the window, filter_videos_by_time returns normally
\* with exactly the other N-1 items.
C2_OneBadRecord ==
    \A bad \in 1..Len(videos) :
        ( /\ Called("filter_videos_by_time")
          /\ ~ThresholdOverflows(now, args.hours)
          /\ Malformed(videos[bad].publishedAt)
          /\ \A j \in 1..Len(videos) : j # bad =>
                 /\ HasZone(videos[j].publishedAt)
                 /\ InstantOf(videos[j].publishedAt) >= now - args.hours )
        => /\ exc = "none"
           /\ filtered_videos = Without(videos, bad)

\* C3: for every window of hours >= 0 and every input list, an item with a
\* parseable publishedAt is in the result of filter_videos_by_time if and
\* only if its instant is >= now - hours, the boundary included.
C3_InWindowIffReturned ==
    ( /\ Called("filter_videos_by_time")
      /\ args.hours >= 0
      /\ ~ThresholdOverflows(now, args.hours) )
        => \A i \in 1..Len(videos) :
               HasZone(videos[i].publishedAt)
                   => ( videos[i] \in Range(filtered_videos)
                        <=> InstantOf(videos[i].publishedAt) >= now - args.hours )

\* C4: the result of filter_videos_by_time is an order-preserving
\* subsequence of its input.
C4_OrderPreservingSubsequence ==
    FilterReturned => IsSubsequence(filtered_videos, videos)

\* Two different items passed the filter, so their order shows.
C4_Witness ==
    /\ FilterReturned
    /\ Len(filtered_videos) = 2
    /\ filtered_videos[1] # filtered_videos[2]

\* C5: for a non-empty list and every display count, display_videos prints
\* a header stating n = min(len(items), displayCount) and then exactly n
\* entries, the first n items in input order, numbered 1..n.
C5_HeaderMatchesEntries ==
    Called("display_videos")
        => LET header == LinesOf("header")
               entries == LinesOf("entry")
               n == Min(Len(filtered_videos), args.count)
           IN /\ Len(header) = 1
              /\ header[1].n = n
              /\ Len(entries) = n
              /\ \A i \in 1..Len(entries) : entries[i] = EntryFor(i, filtered_videos[i])

\* C6: with the credential absent or empty, main prints the
\* configuration-error message and returns: no client is built, no request
\* is issued, and neither the filter nor the presenter is invoked.
C6_NoCredentialNoNetwork ==
    API_KEY \in {"None", ""}
        => /\ requests = 0
           /\ youtube_service = "None"
           /\ Range(calls) \subseteq {"get_youtube_service"}
           /\ exc = "none"
           /\ pc \in {"parse_args", "get_service", "done"}
           /\ pc = "done" => out = <<ConfigErrorLine>>

\* A run that ended on an empty-string credential.
C6_Witness ==
    /\ API_KEY = ""
    /\ pc = "done"
    /\ out = <<ConfigErrorLine>>
    /\ calls = <<"get_youtube_service">>

\* The messages main itself prints when a stage yields nothing usable.
MainMessages == SelectSeq(out, LAMBDA l :
                    l.kind \in {"config_error", "no_service", "no_popular", "no_recent"})

Stages == <<"get_youtube_service", "fetch_popular_videos",
            "filter_videos_by_time", "display_videos">>

\* C7: main runs client builder, fetcher, time filter and presenter in
\* that order and stops at the first stage that yields nothing usable: an
\* empty fetch result gives one message and no filter or presenter, an
\* empty filtered result gives one message and no presenter, and the
\* presenter only ever runs with a non-empty list, so its own no-results
\* line is never printed.
C7_StagesInOrderShortCircuit ==
    /\ Len(calls) <= Len(Stages) /\ calls = SubSeq(Stages, 1, Len(calls))
    /\ (FetchReturned /\ videos = <<>>)
           => /\ calls = SubSeq(Stages, 1, 2)
              /\ pc = "done"
              /\ MainMessages = <<NoPopularLine>>
    /\ (FilterReturned /\ filtered_videos = <<>>)
           => /\ calls = SubSeq(Stages, 1, 3)
              /\ pc = "done"
              /\ MainMessages = <<NoRecentLine>>
    /\ (Called("display_videos") \/ pc = "display")
           => /\ filtered_videos # <<>>
              /\ MainMessages = <<>>
              /\ LinesOf("no_videos") = <<>>

\* A run that stopped after the filter left nothing of a non-empty fetch.
C7_Witness ==
    /\ pc = "done"
    /\ FilterReturned
    /\ videos # <<>>
    /\ filtered_videos = <<>>
    /\ MainMessages = <<NoRecentLine>>

\* C8: once the credential check has passed, every run of main ends by
\* returning normally after printing the listing or a message that says
\* why nothing is shown; no exception escapes main.
C8_NothingFatalAfterCredential ==
    (youtube_service = "Resource" /\ pc = "done")
        => /\ exc = "none"
           /\ \/ Len(LinesOf("header")) = 1
              \/ Len(MainMessages) = 1

\* C9: the display count is applied after time filtering: the entries
\* shown by a run of main are the first min(displayCount, number of items
\* passing the filter) items of the filter's result on the whole fetched
\* list.
C9_CountAfterFilter ==
    (pc = "done" /\ FilterReturned)
        => LET passing == filter_videos_by_time(videos, args.hours, now).result
               k == Min(args.count, Len(passing))
           IN LinesOf("entry") = [i \in 1..Max(k, 0) |-> EntryFor(i, passing[i])]

\* C10: every item excluded because its timestamp fails to parse produces
\* exactly one diagnostic, which names the publishedAt value as it appears
\* in the item together with the item's id; other items produce none.
C10_OneDiagnosticPerParseFailure ==
    FilterReturned
        => LET failing == SelectSeq(videos, LAMBDA v : v.publishedAt.kind = "text")
               diagnostics == LinesOf("parse_error")
           IN /\ Len(diagnostics) = Len(failing)
              /\ \A v \in Range(failing) :
                     Len(SelectSeq(diagnostics,
                             LAMBDA l : l = ParseErrorLine(v.publishedAt, v.id)))
                       = Len(SelectSeq(failing, LAMBDA w : w = v))

====
